---- MODULE Spec2Model ----
(***************************************************************************)
(* A model of pygs/statmisc.py: six stateless statistical helpers.  Each   *)
(* call is a small state machine: the arguments are drawn in the initial   *)
(* state, the function body runs (in one step for the straight-line        *)
(* functions, one step per loop iteration for the sliding-window ones) and *)
(* ends either by returning a value or by raising.                         *)
(*                                                                         *)
(* Numbers.  Real-valued quantities are exact rationals <<n, d>>.  A       *)
(* quantity that is the square root of a rational (a standard deviation,   *)
(* a t value, a correlation coefficient) is carried by its square and its  *)
(* sign.  IEEE-754 special values are explicit ("nan", "inf").  Where the  *)
(* rounding of binary64 arithmetic decides a property (the two variance    *)
(* terms of siglev), the computation is also modelled bit for bit on       *)
(* 53-bit significands (operators F...).                                   *)
(***************************************************************************)
EXTENDS Integers, Sequences, FiniteSets, TLC

VARIABLES fn, args, pc, loc, ret

vars == <<fn, args, pc, loc, ret>>

(***************************************************************************)
(* Python's None and optional keyword arguments.                           *)
(***************************************************************************)
None == <<>>
Some(v) == <<v>>
IsNone(o) == Len(o) = 0
Val(o) == o[1]

(***************************************************************************)
(* Exact rational arithmetic: <<n, d>> with d > 0 and gcd(n, d) = 1.       *)
(***************************************************************************)
Abs(n) == IF n < 0 THEN -n ELSE n

RECURSIVE GCD(_, _)
GCD(a, b) == IF b = 0 THEN a ELSE GCD(b, a % b)

Rat(n, d) ==
  LET g == GCD(Abs(n), Abs(d))
      s == IF d < 0 THEN -1 ELSE 1
  IN  <<(s * n) \div g, (s * d) \div g>>

RatInt(n) == <<n, 1>>
RatAdd(p, q) == Rat(p[1] * q[2] + q[1] * p[2], p[2] * q[2])
RatSub(p, q) == Rat(p[1] * q[2] - q[1] * p[2], p[2] * q[2])
RatMul(p, q) == Rat(p[1] * q[1], p[2] * q[2])
RatDiv(p, q) == Rat(p[1] * q[2], p[2] * q[1])
RatAbs(p) == <<Abs(p[1]), p[2]>>
RatLt(p, q) == p[1] * q[2] < q[1] * p[2]
RatLe(p, q) == p[1] * q[2] <= q[1] * p[2]

RECURSIVE SeqSum(_)
SeqSum(s) == IF s = <<>> THEN 0 ELSE Head(s) + SeqSum(Tail(s))

RECURSIVE SeqSumSq(_)
SeqSumSq(s) == IF s = <<>> THEN 0 ELSE Head(s) * Head(s) + SeqSumSq(Tail(s))

RECURSIVE SeqDotRat(_, _)
SeqDotRat(s, t) ==
  IF s = <<>> \/ t = <<>> THEN <<0, 1>>
  ELSE RatAdd(RatMul(Head(s), Head(t)), SeqDotRat(Tail(s), Tail(t)))

RECURSIVE SeqDot(_, _)
SeqDot(s, t) ==
  IF s = <<>> \/ t = <<>> THEN 0 ELSE Head(s) * Head(t) + SeqDot(Tail(s), Tail(t))

(***************************************************************************)
(* IEEE-754 values as far as the functions meet them: a finite rational,   *)
(* +inf or nan.                                                            *)
(***************************************************************************)
Fin(q) == [k |-> "fin", v |-> q]
NaN == [k |-> "nan", v |-> <<0, 1>>]
Inf == [k |-> "inf", v |-> <<0, 1>>]

\* numpy float64 division x / y for x >= 0, y >= 0: 0/0 is nan, x/0 is inf.
NpDiv(x, y) ==
  IF x.k = "nan" \/ y.k = "nan" THEN NaN
  ELSE IF x.k = "inf" THEN (IF y.k = "inf" THEN NaN ELSE Inf)
  ELSE IF y.k = "inf" THEN Fin(<<0, 1>>)
  ELSE IF y.v[1] = 0 THEN (IF x.v[1] = 0 THEN NaN ELSE Inf)
  ELSE Fin(RatDiv(x.v, y.v))

\* numpy float64 multiplication x * y for x >= 0, y >= 0.
NpMul(x, y) ==
  IF x.k = "nan" \/ y.k = "nan" THEN NaN
  ELSE IF x.k = "inf" THEN (IF y.k = "fin" /\ y.v[1] = 0 THEN NaN ELSE Inf)
  ELSE IF y.k = "inf" THEN (IF x.v[1] = 0 THEN NaN ELSE Inf)
  ELSE Fin(RatMul(x.v, y.v))

NpAdd(x, y) ==
  IF x.k = "nan" \/ y.k = "nan" THEN NaN
  ELSE IF x.k = "inf" \/ y.k = "inf" THEN Inf
  ELSE Fin(RatAdd(x.v, y.v))

(***************************************************************************)
(* binary64 arithmetic, bit for bit.  A natural number of any size is the  *)
(* sequence of its digits in base Limb, least significant first, the last  *)
(* one nonzero (zero is the empty sequence).  A finite float x >= 0 is     *)
(* [m, e] with value m * 2^e and 2^(Prec-1) <= m < 2^Prec (or x = 0).      *)
(* Every operation computes the exact result and rounds it once, to        *)
(* nearest, ties to even, as IEEE-754 prescribes.                          *)
(***************************************************************************)
Prec == 53
LimbBits == 15
Limb == 2 ^ LimbBits

RECURSIVE BNFromInt(_)
BNFromInt(k) == IF k = 0 THEN <<>> ELSE <<k % Limb>> \o BNFromInt(k \div Limb)

RECURSIVE BNTrim(_)
BNTrim(a) ==
  IF a = <<>> THEN a
  ELSE IF a[Len(a)] = 0 THEN BNTrim(SubSeq(a, 1, Len(a) - 1)) ELSE a

RECURSIVE IntBitLen(_)
IntBitLen(k) == IF k = 0 THEN 0 ELSE 1 + IntBitLen(k \div 2)

BNBitLen(a) == IF a = <<>> THEN 0 ELSE LimbBits * (Len(a) - 1) + IntBitLen(a[Len(a)])

RECURSIVE BNAddC(_, _, _)
BNAddC(a, b, c) ==
  IF a = <<>> /\ b = <<>> THEN (IF c = 0 THEN <<>> ELSE <<c>>)
  ELSE LET x == IF a = <<>> THEN 0 ELSE Head(a)
           y == IF b = <<>> THEN 0 ELSE Head(b)
           t == x + y + c
       IN  <<t % Limb>> \o BNAddC(IF a = <<>> THEN a ELSE Tail(a),
                                  IF b = <<>> THEN b ELSE Tail(b), t \div Limb)

BNAdd(a, b) == BNAddC(a, b, 0)

\* a - b for a >= b.
RECURSIVE BNSubB(_, _, _)
BNSubB(a, b, c) ==
  IF a = <<>> THEN <<>>
  ELSE LET y == IF b = <<>> THEN 0 ELSE Head(b)
           t == Head(a) - y - c
       IN  <<t % Limb>> \o BNSubB(Tail(a), IF b = <<>> THEN b ELSE Tail(b),
                                  IF t < 0 THEN 1 ELSE 0)

BNSub(a, b) == BNTrim(BNSubB(a, b, 0))

RECURSIVE BNLess(_, _)
BNLess(a, b) ==
  IF Len(a) # Len(b) THEN Len(a) < Len(b)
  ELSE IF a = <<>> THEN FALSE
  ELSE IF a[Len(a)] # b[Len(b)] THEN a[Len(a)] < b[Len(b)]
  ELSE BNLess(BNTrim(SubSeq(a, 1, Len(a) - 1)), BNTrim(SubSeq(b, 1, Len(b) - 1)))

\* a * k for a machine integer 0 <= k < Limb.
RECURSIVE BNMulC(_, _, _)
BNMulC(a, k, c) ==
  IF a = <<>> THEN (IF c = 0 THEN <<>> ELSE <<c>>)
  ELSE LET t == Head(a) * k + c
       IN  <<t % Limb>> \o BNMulC(Tail(a), k, t \div Limb)

BNMulSmall(a, k) == IF k = 0 THEN <<>> ELSE BNMulC(a, k, 0)

BNShlLimbs(a, n) == IF a = <<>> THEN a ELSE [i \in 1..n |-> 0] \o a

RECURSIVE BNMul(_, _)
BNMul(a, b) ==
  IF a = <<>> \/ b = <<>> THEN <<>>
  ELSE BNAdd(BNMulSmall(a, Head(b)), BNShlLimbs(BNMul(a, Tail(b)), 1))

\* a * 2^s.
BNShl(a, s) == BNShlLimbs(BNMulSmall(a, 2 ^ (s % LimbBits)), s \div LimbBits)

\* Quotient and remainder of a by a machine integer 0 < k <= Limb, most
\* significant digit first.
RECURSIVE BNDivStep(_, _, _)
BNDivStep(a, k, r) ==
  IF a = <<>> THEN [q |-> <<>>, r |-> r]
  ELSE LET n == Len(a)
           t == Limb * r + a[n]
           rest == BNDivStep(SubSeq(a, 1, n - 1), k, t % k)
       IN  [q |-> Append(rest.q, t \div k), r |-> rest.r]

BNDivSmall(a, k) ==
  LET d == BNDivStep(a, k, 0) IN [q |-> BNTrim(d.q), r |-> d.r]

\* a \div 2^s, and whether a nonzero part was shifted out.
BNShr(a, s) ==
  LET n == s \div LimbBits
      d == BNDivSmall(SubSeq(a, n + 1, Len(a)), 2 ^ (s % LimbBits))
  IN  [q |-> d.q, sticky |-> d.r # 0 \/ \E i \in 1..n : i <= Len(a) /\ a[i] # 0]

FZero == [m |-> <<>>, e |-> 0]

\* The float nearest to (P / k) * 2^e, ties to even (0 < k < Limb).
FRound(P, k, e) ==
  IF P = <<>> THEN FZero
  ELSE LET need == Prec + 2 + IntBitLen(k)
           s == IF BNBitLen(P) < need THEN need - BNBitLen(P) ELSE 0
           d == BNDivSmall(BNShl(P, s), k)
           drop == BNBitLen(d.q) - Prec
           sh == BNShr(d.q, drop - 1)
           half == sh.q[1] % 2 = 1
           top == BNDivSmall(sh.q, 2).q
           up == half /\ (sh.sticky \/ d.r # 0 \/ top[1] % 2 = 1)
           m1 == IF up THEN BNAdd(top, <<1>>) ELSE top
           ovf == BNBitLen(m1) > Prec
       IN  [m |-> IF ovf THEN BNDivSmall(m1, 2).q ELSE m1,
            e |-> e - s + drop + (IF ovf THEN 1 ELSE 0)]

FFromInt(k) == FRound(BNFromInt(k), 1, 0)
FMul(x, y) == FRound(BNMul(x.m, y.m), 1, x.e + y.e)
FDiv(x, k) == FRound(x.m, k, x.e)
FAdd(x, y) ==
  IF x.m = <<>> THEN y
  ELSE IF y.m = <<>> THEN x
  ELSE LET e == IF x.e < y.e THEN x.e ELSE y.e
       IN  FRound(BNAdd(BNShl(x.m, x.e - e), BNShl(y.m, y.e - e)), 1, e)

\* |x - y| in units of the last place of the operand of smaller exponent.
FUlpDist(x, y) ==
  IF x.m = <<>> \/ y.m = <<>> THEN (IF x = y THEN <<>> ELSE <<1>>)
  ELSE LET e == IF x.e < y.e THEN x.e ELSE y.e
           a == BNShl(x.m, x.e - e)
           b == BNShl(y.m, y.e - e)
       IN  IF BNLess(a, b) THEN BNSub(b, a) ELSE BNSub(a, b)

(***************************************************************************)
(* Results of a call.                                                      *)
(***************************************************************************)
Raised(e) == [exc |-> e, val |-> None]
Returned(v) == [exc |-> "None", val |-> Some(v)]
NoResult == [exc |-> "running", val |-> None]
NoLocals == <<>>

(***************************************************************************)
(* Tuples over a finite set, by length.                                    *)
(***************************************************************************)
SeqsOfLen(S, n) == [1..n -> S]
SeqsUpTo(S, lo, hi) == UNION {SeqsOfLen(S, n) : n \in lo..hi}

(***************************************************************************)
(* siglev (statmisc.py 17-75).                                             *)
(***************************************************************************)
SigMaxLen == 2
SigMaxVal == 2
SigMaxMean == 1
SigMaxStd == 3
SigMaxN == 4

\* A standard deviation s >= 0, carried by its square sq; f is s as a binary64
\* value where the model has it (a caller-supplied whole number), else None.
Std(q) == [sq |-> q, f |-> None]
StdInt(k) == [sq |-> RatInt(k * k), f |-> Some(FFromInt(k))]

\* np.ma.mean(x), np.ma.std(x) (population form, ddof = 0), np.size(x).
NpMean(x) == Rat(SeqSum(x), Len(x))
NpStd(x) == Std(Rat(Len(x) * SeqSumSq(x) - SeqSum(x) * SeqSum(x), Len(x) * Len(x)))
NpSize(x) == Len(x)

\* Lines 40-42 and 47-49: the x side is misused.
SiglevXError(a) ==
  IF ~IsNone(a.x)
  THEN ~IsNone(a.xbar) \/ ~IsNone(a.xstd) \/ ~IsNone(a.nx)
  ELSE IsNone(a.xbar) \/ IsNone(a.xstd) \/ IsNone(a.nx)

\* A variant of SiglevYError that lets a raw y come with parts of its
\* triple.
SiglevYErrorRawUnchecked(a) ==
  IF ~IsNone(a.y)
  THEN FALSE
  ELSE IsNone(a.ybar) \/ IsNone(a.ystd) \/ IsNone(a.ny)

\* Lines 53-55 and 59-61: the y side is misused.
SiglevYError(a) ==
  IF ~IsNone(a.y)
  THEN ~IsNone(a.ybar) \/ ~IsNone(a.ystd) \/ ~IsNone(a.ny)
  ELSE IsNone(a.ybar) \/ IsNone(a.ystd) \/ IsNone(a.ny)

\* A variant of SiglevXStats whose raw branch takes the variance for sx.
SiglevXStatsVariance(a) ==
  IF ~IsNone(a.x)
  THEN [bar |-> NpMean(Val(a.x)),
        s |-> Std(RatMul(NpStd(Val(a.x)).sq, NpStd(Val(a.x)).sq)),
        n |-> NpSize(Val(a.x))]
  ELSE [bar |-> Val(a.xbar), s |-> Val(a.xstd), n |-> Val(a.nx)]

\* Lines 44-46, 51: the x statistics the formulas read.
SiglevXStats(a) ==
  IF ~IsNone(a.x)
  THEN [bar |-> NpMean(Val(a.x)), s |-> NpStd(Val(a.x)), n |-> NpSize(Val(a.x))]
  ELSE [bar |-> Val(a.xbar), s |-> Val(a.xstd), n |-> Val(a.nx)]

\* Lines 56-58, 63: the y statistics the formulas read.
SiglevYStats(a) ==
  IF ~IsNone(a.y)
  THEN [bar |-> NpMean(Val(a.y)), s |-> NpStd(Val(a.y)), n |-> NpSize(Val(a.y))]
  ELSE [bar |-> Val(a.ybar), s |-> Val(a.ystd), n |-> Val(a.ny)]

\* A variant of PooledDenom without the factor (nx+ny).
PooledDenomNoSum(sx, sy, nx, ny) ==
  NpDiv(NpDiv(Fin(RatAdd(RatMul(RatInt(nx - 1), sx.sq),
                         RatMul(RatInt(ny - 1), sy.sq))),
              Fin(RatInt(nx + ny - 2))),
        Fin(RatInt(nx * ny)))

\* Line 68: ((nx-1)*sx**2 + (ny-1)*sy**2)/(nx+ny-2)*(nx+ny)/(nx*ny).
PooledDenom(sx, sy, nx, ny) ==
  NpDiv(NpMul(NpDiv(Fin(RatAdd(RatMul(RatInt(nx - 1), sx.sq),
                               RatMul(RatInt(ny - 1), sy.sq))),
                    Fin(RatInt(nx + ny - 2))),
              Fin(RatInt(nx + ny))),
        Fin(RatInt(nx * ny)))

\* Line 70: sx**2/nx + sy**2/ny.
SeparateDenom(sx, sy, nx, ny) ==
  NpAdd(NpDiv(Fin(sx.sq), Fin(RatInt(nx))), NpDiv(Fin(sy.sq), Fin(RatInt(ny))))

\* Line 68 as binary64 evaluates it, left to right, one rounding per operation.
FPooledDenom(sx, sy, nx, ny) ==
  IF IsNone(sx.f) \/ IsNone(sy.f) \/ nx + ny - 2 <= 0
  THEN None
  ELSE Some(FDiv(FMul(FDiv(FAdd(FMul(FFromInt(nx - 1), FMul(Val(sx.f), Val(sx.f))),
                                FMul(FFromInt(ny - 1), FMul(Val(sy.f), Val(sy.f)))),
                           nx + ny - 2),
                      FFromInt(nx + ny)),
                 nx * ny))

\* Line 70 as binary64 evaluates it.
FSeparateDenom(sx, sy, nx, ny) ==
  IF IsNone(sx.f) \/ IsNone(sy.f)
  THEN None
  ELSE Some(FAdd(FDiv(FMul(Val(sx.f), Val(sx.f)), nx),
                 FDiv(FMul(Val(sy.f), Val(sy.f)), ny)))

\* Lines 67-70, binary64.
FSiglevDenom(sx, sy, nx, ny, pooled) ==
  IF pooled THEN FPooledDenom(sx, sy, nx, ny) ELSE FSeparateDenom(sx, sy, nx, ny)

\* Lines 67-70.
SiglevDenom(sx, sy, nx, ny, pooled) ==
  IF pooled THEN PooledDenom(sx, sy, nx, ny) ELSE SeparateDenom(sx, sy, nx, ny)

\* Line 71: tval = |xbar - ybar| / sqrt(denom), carried by its square.
SiglevTval(xbar, ybar, denom) ==
  LET d == RatSub(xbar, ybar) IN NpDiv(Fin(RatMul(d, d)), denom)

\* Lines 72-74: clevm = (1 - (1 - cdf(tval, dof))*2)*100.  For a fixed dof > 0
\* this is a strictly increasing function of tval >= 0, so the level is
\* carried by the pair (tval, dof); the Student t cdf is nan for dof <= 0 and
\* for a nan argument.
SiglevLevel(tval, dof) ==
  IF dof <= 0 \/ tval.k = "nan"
  THEN [k |-> "nan", t |-> NaN, dof |-> 0]
  ELSE [k |-> "pct", t |-> tval, dof |-> dof]

\* Lines 44-74: every local of a call that passes the usage checks.
SiglevLocals(a) ==
  LET X == SiglevXStats(a)
      Y == SiglevYStats(a)
      dof == X.n + Y.n - 2
      denom == SiglevDenom(X.s, Y.s, X.n, Y.n, a.pooled)
      tval == SiglevTval(X.bar, Y.bar, denom)
  IN  [xbar |-> X.bar, sx |-> X.s, nx |-> X.n,
       ybar |-> Y.bar, sy |-> Y.s, ny |-> Y.n,
       dof |-> dof, denom |-> denom, tval |-> tval,
       clevm |-> SiglevLevel(tval, dof)]

\* Lines 67-70: denom as the binary64 value the call computes (None when a
\* std-dev is not a given float).
SiglevFDenom(a) ==
  LET X == SiglevXStats(a)
      Y == SiglevYStats(a)
  IN  FSiglevDenom(X.s, Y.s, X.n, Y.n, a.pooled)

SiglevUsageError(a) == SiglevXError(a) \/ SiglevYError(a)

\* The whole function: its result.
Siglev(a) ==
  IF SiglevUsageError(a)
  THEN Raised("SystemError")
  ELSE Returned(SiglevLocals(a).clevm)

SigSample == <<0, 2>>

\* Every pattern of given and omitted arguments.
SiglevUsageArgs ==
  [x : {None, Some(SigSample)}, y : {None, Some(SigSample)},
   xbar : {None, Some(RatInt(1))}, ybar : {None, Some(RatInt(0))},
   xstd : {None, Some(StdInt(1))}, ystd : {None, Some(StdInt(1))},
   nx : {None, Some(2)}, ny : {None, Some(2)},
   pooled : BOOLEAN]

\* Two raw samples of the same length.
SiglevRawArgs ==
  {[x |-> Some(xs), y |-> Some(ys), xbar |-> None, ybar |-> None,
    xstd |-> None, ystd |-> None, nx |-> None, ny |-> None, pooled |-> p] :
     <<xs, ys, p>> \in UNION {SeqsOfLen(0..SigMaxVal, n) \X SeqsOfLen(0..SigMaxVal, n)
                                \X BOOLEAN : n \in 1..SigMaxLen}}

\* Two summaries.
SiglevSummaryArgs ==
  [x : {None}, y : {None},
   xbar : {Some(RatInt(m)) : m \in 0..SigMaxMean},
   ybar : {Some(RatInt(m)) : m \in 0..SigMaxMean},
   xstd : {Some(StdInt(k)) : k \in 0..SigMaxStd},
   ystd : {Some(StdInt(k)) : k \in 0..SigMaxStd},
   nx : {Some(n) : n \in 1..SigMaxN}, ny : {Some(n) : n \in 1..SigMaxN},
   pooled : BOOLEAN]

InitSiglev ==
  /\ fn = "siglev"
  /\ args \in SiglevUsageArgs \cup SiglevRawArgs \cup SiglevSummaryArgs
  /\ pc = "call"
  /\ loc = NoLocals
  /\ ret = NoResult

SiglevRaise ==
  /\ fn = "siglev" /\ pc = "call"
  /\ SiglevUsageError(args)
  /\ ret' = Siglev(args)
  /\ pc' = "done"
  /\ UNCHANGED <<fn, args, loc>>

SiglevReturn ==
  /\ fn = "siglev" /\ pc = "call"
  /\ ~SiglevUsageError(args)
  /\ loc' = SiglevLocals(args)
  /\ ret' = Siglev(args)
  /\ pc' = "done"
  /\ UNCHANGED <<fn, args>>

NextSiglev == SiglevRaise \/ SiglevReturn

SpecSiglev == InitSiglev /\ [][NextSiglev]_vars

(***************************************************************************)
(* Properties of siglev.                                                   *)
(***************************************************************************)
SiglevDone == fn = "siglev" /\ pc = "done"

NGiven(bar, std, n) ==
  (IF IsNone(bar) THEN 0 ELSE 1) + (IF IsNone(std) THEN 0 ELSE 1)
    + (IF IsNone(n) THEN 0 ELSE 1)

\* One side is misused: the raw sequence comes with part of the triple, or
\* it is omitted and the triple is incomplete.
SideMisused(raw, bar, std, n) ==
  \/ ~IsNone(raw) /\ NGiven(bar, std, n) > 0
  \/ IsNone(raw) /\ NGiven(bar, std, n) < 3

\* C1: for every combination of given and omitted arguments, siglev raises
\* the usage error and returns no value exactly when one side is misused;
\* in every other combination it raises no usage error.
C1_UsageError ==
  SiglevDone =>
    LET bad == \/ SideMisused(args.x, args.xbar, args.xstd, args.nx)
               \/ SideMisused(args.y, args.ybar, args.ystd, args.ny)
    IN  /\ bad => ret.exc = "SystemError" /\ IsNone(ret.val)
        /\ ~bad => ret.exc = "None" /\ ~IsNone(ret.val)

\* A call whose x side is right and whose y side has an incomplete triple
\* has raised.
C1_Witness ==
  /\ SiglevDone
  /\ ~IsNone(args.x) /\ NGiven(args.xbar, args.xstd, args.nx) = 0
  /\ IsNone(args.y) /\ NGiven(args.ybar, args.ystd, args.ny) = 2
  /\ ret.exc = "SystemError"

IsRawCall(a) ==
  /\ ~IsNone(a.x) /\ NGiven(a.xbar, a.xstd, a.nx) = 0
  /\ ~IsNone(a.y) /\ NGiven(a.ybar, a.ystd, a.ny) = 0

IsSummaryCall(a) ==
  /\ IsNone(a.x) /\ NGiven(a.xbar, a.xstd, a.nx) = 3
  /\ IsNone(a.y) /\ NGiven(a.ybar, a.ystd, a.ny) = 3

\* The call a caller makes who has computed the statistics of both samples
\* beforehand (with numpy: mean, population std-dev, size).
SummaryOf(a) ==
  [x |-> None, y |-> None,
   xbar |-> Some(NpMean(Val(a.x))), ybar |-> Some(NpMean(Val(a.y))),
   xstd |-> Some(NpStd(Val(a.x))), ystd |-> Some(NpStd(Val(a.y))),
   nx |-> Some(NpSize(Val(a.x))), ny |-> Some(NpSize(Val(a.y))),
   pooled |-> a.pooled]

\* C3: for equal-length samples x and y, siglev on the raw samples returns
\* the level it returns on their precomputed (mean, std-dev, count), pooled
\* or not.
C3_RawEqualsSummary ==
  (SiglevDone /\ IsRawCall(args) /\ Len(Val(args.x)) = Len(Val(args.y))) =>
    /\ ret.exc = "None"
    /\ ret = Siglev(SummaryOf(args))

\* A raw pooled call on two-element samples has returned a level with a
\* finite nonzero t value.
C3_Witness ==
  /\ SiglevDone /\ IsRawCall(args) /\ args.pooled
  /\ Len(Val(args.x)) = 2 /\ Len(Val(args.y)) = 2
  /\ ret.exc = "None"
  /\ Val(ret.val).k = "pct" /\ Val(ret.val).t.k = "fin" /\ Val(ret.val).t.v[1] > 0

Flip(a) == [a EXCEPT !.pooled = ~a.pooled]

EqualCounts == SiglevDone /\ ret.exc = "None" /\ loc.nx = loc.ny /\ loc.nx > 1

CnfLevels == 4
CnfMaxQ == 4
CnfMaxStd == 2
CnfMaxN == 3

SFin(q) == [k |-> "fin", v |-> q]
SNaN == [k |-> "nan", v |-> <<0, 1>>]
SInf == [k |-> "inf", v |-> <<0, 1>>]
SNegInf == [k |-> "ninf", v |-> <<0, 1>>]

\* st.t.ppf(cl, dof) for a level cl on the grid.
TPpf(cl, dof, tq) ==
  LET j == (cl[1] * 2 * CnfLevels) \div cl[2]
  IN  IF dof <= 0 \/ RatLt(cl, <<0, 1>>) \/ RatLt(<<1, 1>>, cl) THEN SNaN
      ELSE IF j = 0 THEN SNegInf
      ELSE IF j = 2 * CnfLevels THEN SInf
      ELSE IF j = CnfLevels THEN SFin(<<0, 1>>)
      ELSE IF j > CnfLevels THEN SFin(RatInt(tq[j - CnfLevels]))
      ELSE SFin(RatInt(-tq[CnfLevels - j]))

\* A variant of CnfintLevel with the two branches exchanged.
CnfintLevelSwapped(clev, tail) ==
  IF tail = 1
  THEN RatSub(<<1, 1>>, RatDiv(RatSub(<<1, 1>>, clev), <<2, 1>>))
  ELSE clev

\* Lines 87-90: the level the quantile is looked up at.
CnfintLevel(clev, tail) ==
  IF tail = 1
  THEN clev
  ELSE RatSub(<<1, 1>>, RatDiv(RatSub(<<1, 1>>, clev), <<2, 1>>))

\* Line 94: tinv_val * sdbar with sdbar = xstd / sqrt(nx) (line 92), xstd >= 0.
\* The width is c / sqrt(n), carried as the pair (c, n).
CnfintDiff(tinv, xstd, nx) ==
  IF tinv.k = "nan" THEN [k |-> "nan", v |-> <<0, 1>>, n |-> nx]
  ELSE IF tinv.k = "fin" THEN [k |-> "fin", v |-> RatMul(tinv.v, RatInt(xstd)), n |-> nx]
  ELSE IF xstd = 0 THEN [k |-> "nan", v |-> <<0, 1>>, n |-> nx]
  ELSE [k |-> tinv.k, v |-> <<0, 1>>, n |-> nx]

\* The whole function (lines 87-96).
Cnfint(a) ==
  LET cl == CnfintLevel(a.clev, a.tail)
      tinv_val == TPpf(cl, a.nx - 1, a.tq)
  IN  Returned(CnfintDiff(tinv_val, a.xstd, a.nx))

\* Strictly increasing tuples of n values in 1..m.
Increasing(n, m) ==
  {q \in SeqsOfLen(1..m, n) : \A i \in 1..(n - 1) : q[i] < q[i + 1]}

CnfintArgs ==
  [xstd : 0..CnfMaxStd, nx : 1..CnfMaxN,
   clev : {Rat(j, CnfLevels) : j \in 0..CnfLevels},
   tail : {1, 2},
   tq : Increasing(CnfLevels - 1, CnfMaxQ)]

InitCnfint ==
  /\ fn = "cnfint"
  /\ args \in CnfintArgs
  /\ pc = "call"
  /\ loc = NoLocals
  /\ ret = NoResult

CnfintReturn ==
  /\ fn = "cnfint" /\ pc = "call"
  /\ ret' = Cnfint(args)
  /\ pc' = "done"
  /\ UNCHANGED <<fn, args, loc>>

NextCnfint == CnfintReturn

SpecCnfint == InitCnfint /\ [][NextCnfint]_vars

(***************************************************************************)
(* Properties of cnfint.                                                   *)
(***************************************************************************)
CnfintDone == fn = "cnfint" /\ pc = "done"

\* The widths of the one-tailed and of the two-tailed call on the arguments
\* of the call that ran.
Width1 == Val(Cnfint([args EXCEPT !.tail = 1]).val)
Width2 == Val(Cnfint([args EXCEPT !.tail = 2]).val)

\* w1 <= w2 and w1 # w2 as floating-point comparisons of two widths with
\* the same count (nan compares false, and differs from everything).
WidthLe(w1, w2) ==
  /\ w1.k # "nan" /\ w2.k # "nan"
  /\ \/ w1.k = "ninf"
     \/ w2.k = "inf"
     \/ w1.k = "fin" /\ w2.k = "fin" /\ RatLe(w1.v, w2.v)

WidthDiffer(w1, w2) == w1.k = "nan" \/ w2.k = "nan" \/ w1 # w2

\* C8 as stated, read for a proper confidence level 0 < clev < 1 and a
\* count > 1: for the same std-dev, count and clev the two widths differ and
\* width(tail=2) >= width(tail=1).
C8_DifferAndOrdered ==
  (/\ CnfintDone /\ ret = Cnfint(args)
   /\ RatLt(<<0, 1>>, args.clev) /\ RatLt(args.clev, <<1, 1>>)
   /\ args.nx > 1) =>
    /\ WidthDiffer(Width1, Width2)
    /\ WidthLe(Width1, Width2)

\* C8 amended: for the same std-dev >= 0, count > 1 and 0 < clev < 1,
\* width(tail=2) >= width(tail=1), and the two differ exactly when the
\* std-dev is not 0.
C8_OrderedAndDifferIfSpread ==
  (/\ CnfintDone /\ ret = Cnfint(args)
   /\ RatLt(<<0, 1>>, args.clev) /\ RatLt(args.clev, <<1, 1>>)
   /\ args.nx > 1) =>
    /\ WidthLe(Width1, Width2)
    /\ WidthDiffer(Width1, Width2) <=> args.xstd > 0

\* A two-tailed call with a positive std-dev has returned a finite width
\* strictly above the one-tailed one.
C8_Witness ==
  /\ CnfintDone /\ args.tail = 2 /\ args.xstd > 0 /\ args.nx > 1
  /\ RatLt(<<0, 1>>, args.clev) /\ RatLt(args.clev, <<1, 1>>)
  /\ Val(ret.val) = Width2
  /\ Width1.k = "fin" /\ Width2.k = "fin" /\ RatLt(Width1.v, Width2.v)

(***************************************************************************)
(* Arrays: a shape and the elements.  len() is the first dimension.        *)
(***************************************************************************)
Arr1(d) == [shape |-> <<Len(d)>>, data |-> d]
Arr2(r, c, d) == [shape |-> <<r, c>>, data |-> d]
NDim(a) == Len(a.shape)
PyLen(a) == a.shape[1]

\* Two arrays of two dimensions.
Arrays2D == {Arr2(1, 1, <<0>>), Arr2(2, 1, <<0, 1>>)}

(***************************************************************************)
(* autocorr (statmisc.py 99-123).                                          *)
(*                                                                         *)
(* A normalized sequence is [c, s2]: element i is c[i] / sqrt(s2), s2 the  *)
(* variance of the input.  With s2 = 0 every element is 0/0 = nan.  An     *)
(* element of the correlation is v / sqrt(s2), s2 the product of the two   *)
(* variances, or nan.                                                      *)
(***************************************************************************)
AcMaxLen == 3
AcMaxVal == 1

ArrVar(d) == Rat(Len(d) * SeqSumSq(d) - SeqSum(d) * SeqSum(d), Len(d) * Len(d))

\* Line 118: (a - a.mean())/(a.std() * len(a)).
AutocorrNormA(d) ==
  [c |-> [i \in 1..Len(d) |-> Rat(Len(d) * d[i] - SeqSum(d), Len(d) * Len(d))],
   s2 |-> ArrVar(d)]

\* Line 119: (v - v.mean())/v.std().
AutocorrNormV(d) ==
  [c |-> [i \in 1..Len(d) |-> Rat(Len(d) * d[i] - SeqSum(d), Len(d))],
   s2 |-> ArrVar(d)]

\* sum of A[n + k] * V[n] for n in lo..hi (1-based n, lag k).
RECURSIVE LagSum(_, _, _, _, _)
LagSum(A, V, k, lo, hi) ==
  IF lo > hi THEN <<0, 1>>
  ELSE RatAdd(IF 1 <= lo + k /\ lo + k <= Len(A) THEN RatMul(A[lo + k], V[lo]) ELSE <<0, 1>>,
              LagSum(A, V, k, lo + 1, hi))

CorrElem(q, s2) ==
  IF s2[1] = 0 THEN [k |-> "nan", v |-> <<0, 1>>, s2 |-> s2]
  ELSE [k |-> "fin", v |-> q, s2 |-> s2]

\* A variant of NpCorrelateFull that counts the lags from the other end.
NpCorrelateFullReversed(A, V) ==
  [j \in 1..(Len(A.c) + Len(V.c) - 1) |->
     CorrElem(LagSum(A.c, V.c, Len(A.c) - j, 1, Len(V.c)), RatMul(A.s2, V.s2))]

\* Line 121: np.correlate(a, v, mode='full') for non-empty a and v: element
\* j (from 0) is the sum over n of a[n + k] * v[n] at lag k = j - (len(v) - 1).
NpCorrelateFull(A, V) ==
  [j \in 1..(Len(A.c) + Len(V.c) - 1) |->
     CorrElem(LagSum(A.c, V.c, j - Len(V.c), 1, Len(V.c)), RatMul(A.s2, V.s2))]

\* The whole function (lines 113-123).  np.correlate rejects an empty
\* argument with ValueError.
Autocorr(a, v) ==
  IF NDim(a) > 1 THEN Raised("ValueError")
  ELSE IF NDim(v) > 1 THEN Raised("ValueError")
  ELSE IF PyLen(a) = 0 \/ PyLen(v) = 0 THEN Raised("ValueError")
  ELSE Returned(NpCorrelateFull(AutocorrNormA(a.data), AutocorrNormV(v.data)))

AcArrays == {Arr1(d) : d \in SeqsUpTo(0..AcMaxVal, 0, AcMaxLen)} \cup Arrays2D

InitAutocorr ==
  /\ fn = "autocorr"
  /\ args \in [a : AcArrays, v : AcArrays]
  /\ pc = "call"
  /\ loc = NoLocals
  /\ ret = NoResult

AutocorrRaise ==
  /\ fn = "autocorr" /\ pc = "call"
  /\ Autocorr(args.a, args.v).exc # "None"
  /\ ret' = Autocorr(args.a, args.v)
  /\ pc' = "done"
  /\ UNCHANGED <<fn, args, loc>>

AutocorrReturn ==
  /\ fn = "autocorr" /\ pc = "call"
  /\ Autocorr(args.a, args.v).exc = "None"
  /\ ret' = Autocorr(args.a, args.v)
  /\ pc' = "done"
  /\ UNCHANGED <<fn, args, loc>>

NextAutocorr == AutocorrRaise \/ AutocorrReturn

SpecAutocorr == InitAutocorr /\ [][NextAutocorr]_vars

(***************************************************************************)
(* Properties of autocorr.                                                 *)
(***************************************************************************)
AutocorrDone == fn = "autocorr" /\ pc = "done"

Min(m, n) == IF m < n THEN m ELSE n

\* The zero-lag term: the sum over k of normalized a[k] times normalized v[k].
ZeroLag(a, v) ==
  LET A == AutocorrNormA(a.data)
      V == AutocorrNormV(v.data)
      m == Min(Len(a.data), Len(v.data))
  IN  CorrElem(SeqDotRat(SubSeq(A.c, 1, m), SubSeq(V.c, 1, m)), RatMul(A.s2, V.s2))

\* The claimed shape of the result: len(a) + len(v) - 1 elements, the
\* zero-lag term at index len(v) - 1 (counting from 0).
FullShape(a, v) ==
  /\ ret.exc = "None"
  /\ Len(Val(ret.val)) = PyLen(a) + PyLen(v) - 1
  /\ PyLen(v) \in 1..Len(Val(ret.val))
  /\ Val(ret.val)[PyLen(v)] = ZeroLag(a, v)

RaisedValueError == ret.exc = "ValueError" /\ IsNone(ret.val)

\* C7 as stated: for any 1-D inputs the result has len(a) + len(v) - 1
\* elements with the zero-lag term at index len(v) - 1; an input of more
\* than one dimension raises ValueError and nothing is returned.
C7_AnyInputs ==
  AutocorrDone =>
    IF NDim(args.a) > 1 \/ NDim(args.v) > 1
    THEN RaisedValueError
    ELSE FullShape(args.a, args.v)

\* C7 amended: the same for any non-empty 1-D inputs.
C7_NonEmptyInputs ==
  AutocorrDone =>
    IF NDim(args.a) > 1 \/ NDim(args.v) > 1
    THEN RaisedValueError
    ELSE (PyLen(args.a) > 0 /\ PyLen(args.v) > 0) => FullShape(args.a, args.v)

\* A call with v longer than a, neither constant, has returned a finite
\* nonzero zero-lag term.
C7_Witness ==
  /\ AutocorrDone /\ ret.exc = "None"
  /\ PyLen(args.a) = 2 /\ PyLen(args.v) = 3
  /\ Val(ret.val)[PyLen(args.v)].k = "fin"
  /\ Val(ret.val)[PyLen(args.v)].v[1] # 0

(***************************************************************************)
(* Python slicing d[start:stop] of a sequence of n elements: a negative    *)
(* bound counts from the end, and both are clipped to 0..n.                *)
(***************************************************************************)
PyBound(x, n) == IF x < 0 THEN (IF x + n < 0 THEN 0 ELSE x + n) ELSE (IF x > n THEN n ELSE x)
PySlice(d, start, stop) == SubSeq(d, PyBound(start, Len(d)) + 1, PyBound(stop, Len(d)))

\* An element of np.empty(...) that nothing has written yet.
Uninit == [k |-> "uninit", v |-> <<0, 1>>]
NpEmpty(n) == [j \in 1..n |-> Uninit]

\* np.mean of a slice: nan (with a warning) when the slice is empty.
NpMeanOf(d) == IF Len(d) = 0 THEN NaN ELSE Fin(Rat(SeqSum(d), Len(d)))

(***************************************************************************)
(* smooth_ts (statmisc.py 127-153).  loc.written lists the indices the     *)
(* loop has assigned, in the order of the assignments.                     *)
(***************************************************************************)
SmMaxLen == 3
SmMaxVal == 2
SmNegWin == 1

\* Lines 136-139: the argument checks.
SmoothInvalid(ts, window) == NDim(ts) > 1 \/ ~window.int

\* A variant of SmoothSlice one element short.
SmoothSliceShort(ts, i, window) == PySlice(ts.data, i, i + window - 1)

\* Line 150: ts[i:i+window].
SmoothSlice(ts, i, window) == PySlice(ts.data, i, i + window)

\* A variant of SmoothCond that stops one window early.
SmoothCondStrict(i, window, n) == i + window < n

\* Line 149: the loop condition.
SmoothCond(i, window, n) == i + window <= n

SmoothArgs ==
  [ts : {Arr1(d) : d \in SeqsUpTo(0..SmMaxVal, 0, SmMaxLen)} \cup Arrays2D,
   window : [int : {TRUE}, val : (-SmNegWin)..(SmMaxLen + 2)]
              \cup {[int |-> FALSE, val |-> 2]}]

InitSmooth ==
  /\ fn = "smooth_ts"
  /\ args \in SmoothArgs
  /\ pc = "call"
  /\ loc = NoLocals
  /\ ret = NoResult

\* Lines 136-139, and np.empty refusing a negative size at line 145.
SmoothRaise ==
  /\ fn = "smooth_ts" /\ pc = "call"
  /\ SmoothInvalid(args.ts, args.window) \/ PyLen(args.ts) - args.window.val + 1 < 0
  /\ ret' = Raised("ValueError")
  /\ pc' = "done"
  /\ UNCHANGED <<fn, args, loc>>

\* Lines 141-148.
SmoothAlloc ==
  /\ fn = "smooth_ts" /\ pc = "call"
  /\ ~SmoothInvalid(args.ts, args.window)
  /\ PyLen(args.ts) - args.window.val + 1 >= 0
  /\ loc' = [n |-> PyLen(args.ts),
             ns |-> PyLen(args.ts) - args.window.val + 1,
             ts_smooth |-> NpEmpty(PyLen(args.ts) - args.window.val + 1),
             i |-> 0,
             written |-> <<>>]
  /\ pc' = "loop"
  /\ UNCHANGED <<fn, args, ret>>

\* Lines 149-151: one iteration; an index outside ts_smooth is an IndexError.
SmoothStep ==
  /\ fn = "smooth_ts" /\ pc = "loop"
  /\ SmoothCond(loc.i, args.window.val, loc.n)
  /\ IF loc.i < Len(loc.ts_smooth)
     THEN /\ loc' = [loc EXCEPT
                       !.ts_smooth[loc.i + 1] =
                          NpMeanOf(SmoothSlice(args.ts, loc.i, args.window.val)),
                       !.i = loc.i + 1,
                       !.written = Append(loc.written, loc.i)]
          /\ UNCHANGED <<pc, ret>>
     ELSE /\ ret' = Raised("IndexError")
          /\ pc' = "done"
          /\ UNCHANGED loc
  /\ UNCHANGED <<fn, args>>

\* Line 153.
SmoothReturn ==
  /\ fn = "smooth_ts" /\ pc = "loop"
  /\ ~SmoothCond(loc.i, args.window.val, loc.n)
  /\ ret' = Returned(loc.ts_smooth)
  /\ pc' = "done"
  /\ UNCHANGED <<fn, args, loc>>

NextSmooth == SmoothRaise \/ SmoothAlloc \/ SmoothStep \/ SmoothReturn

SpecSmooth == InitSmooth /\ [][NextSmooth]_vars

(***************************************************************************)
(* run_corr (statmisc.py 157-189).  A correlation coefficient r is carried *)
(* by its sign and its square; the array stores it as float32.             *)
(***************************************************************************)
RcMaxLen == 3
RcMaxVal == 1
RcNegWin == 1

Sign(n) == IF n < 0 THEN -1 ELSE IF n > 0 THEN 1 ELSE 0

\* np.corrcoef(s, t)[0][1] for two slices of the same length: nan when they
\* hold fewer than two elements or one of them is constant.
Pearson(s, t) ==
  LET m == Len(s)
      Sxy == m * SeqDot(s, t) - SeqSum(s) * SeqSum(t)
      Sxx == m * SeqSumSq(s) - SeqSum(s) * SeqSum(s)
      Syy == m * SeqSumSq(t) - SeqSum(t) * SeqSum(t)
  IN  IF m < 2 \/ Sxx = 0 \/ Syy = 0
      THEN [k |-> "nan", sgn |-> 0, sq |-> <<0, 1>>]
      ELSE [k |-> "fin", sgn |-> Sign(Sxy), sq |-> Rat(Sxy * Sxy, Sxx * Syy)]

UninitCorr == [k |-> "uninit", sgn |-> 0, sq |-> <<0, 1>>]

\* A variant of RunCorrInvalid that compares the numbers of dimensions
\* where the lengths are meant.
RunCorrInvalidNoLength(arr1, arr2) ==
  NDim(arr1) > 1 \/ NDim(arr2) > 1 \/ NDim(arr1) # NDim(arr2)

\* Lines 166-175: the argument checks.
RunCorrInvalid(arr1, arr2) ==
  NDim(arr1) > 1 \/ NDim(arr2) > 1 \/ PyLen(arr1) # PyLen(arr2)

\* A variant of RunCorrEnd that ends the slice a whole window after i.
RunCorrEndWhole(i, window_size) == i + window_size

\* Line 184: i_end.
RunCorrEnd(i, window_size) == i + window_size - 1

\* A variant of RunCorrCond that admits one more iteration.
RunCorrCondLoose(i, window_size, a1) == i + window_size - 1 <= a1

\* Line 182: the loop condition.
RunCorrCond(i, window_size, a1) == i + window_size - 1 < a1

RcArrays == {Arr1(d) : d \in SeqsUpTo(0..RcMaxVal, 0, RcMaxLen)} \cup Arrays2D

RunCorrArgs ==
  [arr1 : RcArrays, arr2 : RcArrays, window_size : (-RcNegWin)..(RcMaxLen + 2)]

InitRunCorr ==
  /\ fn = "run_corr"
  /\ args \in RunCorrArgs
  /\ pc = "call"
  /\ loc = NoLocals
  /\ ret = NoResult

\* Lines 168-175, and np.empty refusing a negative size at line 179.
RunCorrRaise ==
  /\ fn = "run_corr" /\ pc = "call"
  /\ RunCorrInvalid(args.arr1, args.arr2) \/ PyLen(args.arr1) - args.window_size + 1 < 0
  /\ ret' = Raised("ValueError")
  /\ pc' = "done"
  /\ UNCHANGED <<fn, args, loc>>

\* Lines 172-181.
RunCorrAlloc ==
  /\ fn = "run_corr" /\ pc = "call"
  /\ ~RunCorrInvalid(args.arr1, args.arr2)
  /\ PyLen(args.arr1) - args.window_size + 1 >= 0
  /\ loc' = [a1 |-> PyLen(args.arr1), a2 |-> PyLen(args.arr2),
             corr_size |-> PyLen(args.arr1) - args.window_size + 1,
             run_corr_arr |-> [j \in 1..(PyLen(args.arr1) - args.window_size + 1) |-> UninitCorr],
             i |-> 0, i_start |-> 0, i_end |-> 0,
             s1 |-> <<>>, s2 |-> <<>>,
             written |-> <<>>]
  /\ pc' = "loop"
  /\ UNCHANGED <<fn, args, ret>>

\* Lines 182-187: one iteration.  np.corrcoef refuses two slices of
\* different lengths (ValueError); an index outside run_corr_arr is an
\* IndexError.
RunCorrStep ==
  /\ fn = "run_corr" /\ pc = "loop"
  /\ RunCorrCond(loc.i, args.window_size, loc.a1)
  /\ LET i_start == loc.i
         i_end == RunCorrEnd(loc.i, args.window_size)
         s1 == PySlice(args.arr1.data, i_start, i_end)
         s2 == PySlice(args.arr2.data, i_start, i_end)
     IN  IF Len(s1) # Len(s2)
         THEN /\ ret' = Raised("ValueError")
              /\ pc' = "done"
              /\ UNCHANGED loc
         ELSE IF loc.i >= Len(loc.run_corr_arr)
         THEN /\ ret' = Raised("IndexError")
              /\ pc' = "done"
              /\ UNCHANGED loc
         ELSE /\ loc' = [loc EXCEPT
                           !.run_corr_arr[loc.i + 1] = Pearson(s1, s2),
                           !.i_start = i_start, !.i_end = i_end,
                           !.s1 = s1, !.s2 = s2,
                           !.i = loc.i + 1,
                           !.written = Append(loc.written, loc.i)]
              /\ UNCHANGED <<pc, ret>>
  /\ UNCHANGED <<fn, args>>

\* Line 189.
RunCorrReturn ==
  /\ fn = "run_corr" /\ pc = "loop"
  /\ ~RunCorrCond(loc.i, args.window_size, loc.a1)
  /\ ret' = Returned(loc.run_corr_arr)
  /\ pc' = "done"
  /\ UNCHANGED <<fn, args, loc>>

NextRunCorr == RunCorrRaise \/ RunCorrAlloc \/ RunCorrStep \/ RunCorrReturn

SpecRunCorr == InitRunCorr /\ [][NextRunCorr]_vars

(***************************************************************************)
(* The two sliding-window loops together, each call running to its end.    *)
(***************************************************************************)
\* The loops of run_corr read its arrays only through their lengths and
\* slices, so two-valued arrays are enough here.
LoopArrays == {Arr1(d) : d \in SeqsUpTo({0, 1}, 0, RcMaxLen)} \cup Arrays2D

InitLoops ==
  \/ InitSmooth
  \/ /\ InitRunCorr
     /\ args.arr1 \in LoopArrays
     /\ args.arr2 \in LoopArrays

NextLoops == NextSmooth \/ NextRunCorr

SpecLoops == InitLoops /\ [][NextLoops]_vars /\ WF_vars(NextLoops)

(***************************************************************************)
(* Properties of smooth_ts.                                                *)
(***************************************************************************)
SmoothDone == fn = "smooth_ts" /\ pc = "done"

\* The arithmetic mean of the window of ts (a tuple) that starts at index i
\* (from 0) and holds w elements.
WindowMean(d, i, w) == Fin(Rat(SeqSum([j \in 1..w |-> d[i + j]]), w))

\* C2: for a 1-D ts and an integer window with 1 <= window <= len(ts) the
\* result has len(ts) - window + 1 elements, and element i is the mean of
\* ts[i : i+window], earliest window first.
C2_MovingAverage ==
  (/\ SmoothDone /\ NDim(args.ts) = 1 /\ args.window.int
   /\ 1 <= args.window.val /\ args.window.val <= PyLen(args.ts)) =>
    /\ ret.exc = "None"
    /\ Len(Val(ret.val)) = PyLen(args.ts) - args.window.val + 1
    /\ \A i \in 0..(PyLen(args.ts) - args.window.val) :
         Val(ret.val)[i + 1] = WindowMean(args.ts.data, i, args.window.val)

\* The call smooth_ts([0, 1, 2], 2) has returned [0.5, 1.5].
C2_Witness ==
  /\ SmoothDone /\ args.ts = Arr1(<<0, 1, 2>>)
  /\ args.window = [int |-> TRUE, val |-> 2]
  /\ ret = Returned(<<Fin(<<1, 2>>), Fin(<<3, 2>>)>>)

(***************************************************************************)
(* Properties of run_corr.                                                 *)
(***************************************************************************)
RunCorrDone == fn = "run_corr" /\ pc = "done"

\* C4: run_corr raises ValueError whenever len(arr1) # len(arr2), whatever
\* the window size, before the output is allocated or a correlation is
\* computed; with equal lengths a returned sequence has
\* len(arr1) - window_size + 1 elements.
C4_LengthCheck ==
  RunCorrDone =>
    /\ PyLen(args.arr1) # PyLen(args.arr2) =>
         ret.exc = "ValueError" /\ IsNone(ret.val) /\ loc = NoLocals
    /\ (PyLen(args.arr1) = PyLen(args.arr2) /\ ret.exc = "None") =>
         Len(Val(ret.val)) = PyLen(args.arr1) - args.window_size + 1

\* Two 1-D arrays of lengths 3 and 2 have been refused for a window size
\* that suits neither.
C4_Witness ==
  /\ RunCorrDone /\ NDim(args.arr1) = 1 /\ NDim(args.arr2) = 1
  /\ PyLen(args.arr1) = 3 /\ PyLen(args.arr2) = 2
  /\ args.window_size > 3
  /\ ret.exc = "ValueError" /\ loc = NoLocals

RunCorrRuns ==
  /\ fn = "run_corr" /\ pc \in {"loop", "done"} /\ loc # NoLocals
  /\ args.window_size >= 1

\* The elements of d at the indices i .. i + w - 2 (from 0): w - 1 of them.
ShortWindow(d, i, w) == [j \in 1..(w - 1) |-> d[i + j]]

LoopCall ==
  \/ /\ fn = "smooth_ts" /\ ~SmoothInvalid(args.ts, args.window)
     /\ PyLen(args.ts) - args.window.val + 1 >= 0
  \/ /\ fn = "run_corr" /\ ~RunCorrInvalid(args.arr1, args.arr2)
     /\ PyLen(args.arr1) - args.window_size + 1 >= 0

LoopWindow == IF fn = "smooth_ts" THEN args.window.val ELSE args.window_size
LoopLen == IF fn = "smooth_ts" THEN PyLen(args.ts) ELSE PyLen(args.arr1)
LoopOutput == IF fn = "smooth_ts" THEN loc.ts_smooth ELSE loc.run_corr_arr

\* The writes so far are 0, 1, ..., i - 1 in this order, all inside the
\* output; at the end every index 0 .. n - window has been written.
LoopWrites ==
  (LoopCall /\ pc # "call") =>
    /\ Len(LoopOutput) = LoopLen - LoopWindow + 1
    /\ loc.written = [j \in 1..loc.i |-> j - 1]
    /\ loc.i <= Len(LoopOutput)
    /\ \A j \in 1..Len(LoopOutput) : LoopOutput[j].k = "uninit" <=> j > loc.i
    /\ pc = "done" =>
         /\ ret = Returned(LoopOutput)
         /\ loc.i = LoopLen - LoopWindow + 1

\* C9: for every length n >= 0 and every integer window, positive or not,
\* with n - window + 1 >= 0, the loops of smooth_ts and run_corr terminate,
\* having written each index 0 .. n - window of the output once, in
\* increasing order, none outside the output, none left unwritten.
C9_LoopsWriteAllAndTerminate == [](LoopWrites) /\ <>(pc = "done")

\* Both loops have finished for a window <= 0, with more writes than the
\* input has elements.
C9_Witness ==
  /\ LoopCall /\ pc = "done" /\ LoopWindow <= 0 /\ LoopLen = 2
  /\ ret.exc = "None" /\ Len(loc.written) = LoopLen - LoopWindow + 1

(***************************************************************************)
(* mann_kendall (statmisc.py 191-208).  tau is Kendall's tau-b, carried by *)
(* its sign and its square; the p-value returned with it is left out.      *)
(* args.nanAt is the position of a nan among the data (0: there is none).  *)
(***************************************************************************)
MkMaxLen == 3
MkMaxVal == 2

\* A variant of MkIndex that counts down.
MkIndexReversed(n) == [i \in 1..n |-> n - i]

\* Line 204: np.arange(len(data)).
MkIndex(n) == [i \in 1..n |-> i - 1]

PairsOf(n) == {p \in (1..n) \X (1..n) : p[1] < p[2]}

\* st.kendalltau(x, y): (concordant - discordant) / sqrt((tot - xtie)(tot - ytie)),
\* nan when there are fewer than two observations or one side is all ties.
KendallTau(x, y) ==
  LET P == PairsOf(Len(x))
      tot == Cardinality(P)
      con == Cardinality({p \in P : (x[p[1]] - x[p[2]]) * (y[p[1]] - y[p[2]]) > 0})
      dis == Cardinality({p \in P : (x[p[1]] - x[p[2]]) * (y[p[1]] - y[p[2]]) < 0})
      xtie == Cardinality({p \in P : x[p[1]] = x[p[2]]})
      ytie == Cardinality({p \in P : y[p[1]] = y[p[2]]})
  IN  IF Len(x) < 2 \/ xtie = tot \/ ytie = tot
      THEN [k |-> "nan", sgn |-> 0, sq |-> <<0, 1>>]
      ELSE [k |-> "fin", sgn |-> Sign(con - dis),
            sq |-> Rat((con - dis) * (con - dis), (tot - xtie) * (tot - ytie))]

\* The whole function (lines 201-208); nan_policy="raise" refuses a nan.
MannKendall(a) ==
  IF NDim(a.data) > 1 THEN Raised("ValueError")
  ELSE IF a.nanAt > 0 THEN Raised("ValueError")
  ELSE Returned(KendallTau(MkIndex(PyLen(a.data)), a.data.data))

MannKendallArgs ==
  {[data |-> Arr1(d), nanAt |-> k] :
     <<d, k>> \in UNION {SeqsOfLen(0..MkMaxVal, n) \X (0..n) : n \in 0..MkMaxLen}}
  \cup {[data |-> A, nanAt |-> 0] : A \in Arrays2D}

InitMannKendall ==
  /\ fn = "mann_kendall"
  /\ args \in MannKendallArgs
  /\ pc = "call"
  /\ loc = NoLocals
  /\ ret = NoResult

MannKendallRaise ==
  /\ fn = "mann_kendall" /\ pc = "call"
  /\ MannKendall(args).exc # "None"
  /\ ret' = MannKendall(args)
  /\ pc' = "done"
  /\ UNCHANGED <<fn, args, loc>>

MannKendallReturn ==
  /\ fn = "mann_kendall" /\ pc = "call"
  /\ MannKendall(args).exc = "None"
  /\ ret' = MannKendall(args)
  /\ pc' = "done"
  /\ UNCHANGED <<fn, args, loc>>

NextMannKendall == MannKendallRaise \/ MannKendallReturn

SpecMannKendall == InitMannKendall /\ [][NextMannKendall]_vars

(***************************************************************************)
(* Properties of mann_kendall.                                             *)
(***************************************************************************)
MannKendallDone ==
  /\ fn = "mann_kendall" /\ pc = "done"
  /\ NDim(args.data) = 1 /\ args.nanAt = 0 /\ PyLen(args.data) >= 2

StrictlyIncreasing(d) == \A i \in 1..(Len(d) - 1) : d[i] < d[i + 1]
StrictlyDecreasing(d) == \A i \in 1..(Len(d) - 1) : d[i] > d[i + 1]

TauIs(sgn) == ret = Returned([k |-> "fin", sgn |-> sgn, sq |-> <<1, 1>>])

Init ==
  \/ InitSiglev
  \/ InitCnfint
  \/ InitAutocorr
  \/ InitSmooth
  \/ InitRunCorr
  \/ InitMannKendall

Next ==
  \/ NextSiglev
  \/ NextCnfint
  \/ NextAutocorr
  \/ NextSmooth
  \/ NextRunCorr
  \/ NextMannKendall

Spec == Init /\ [][Next]_vars

====
